---- MODULE Spec2Model ----
(***************************************************************************)
(* psilo-text: the glyph cache (TextHandler), its atlas bins and the       *)
(* optional background renderer (bg::Renderer), as a state machine.        *)
(*                                                                         *)
(* The caller's thread runs add_face, set_render_in_background, get_glyph  *)
(* and the drop of the TextHandler; the worker thread runs one iteration   *)
(* of its command loop per step.  The two mpsc channels are sequences.     *)
(* Spec is the build with the bg-render feature, SpecFg the default build  *)
(* without it (no worker, no channels, every glyph resolved in the call).  *)
(* SpecLive is Spec with a succeeding handler, a scheduled worker and a    *)
(* caller that keeps polling; SpecDrop adds the drop of the TextHandler.   *)
(* SpecDropFair is SpecDrop with the worker thread scheduled.              *)
(* SpecSteps is Spec with add_face taken statement by statement, so that   *)
(* the worker can run between its send and its push.                       *)
(* The AtlasHandler is the embedder's: its new_atlas and add_to_atlas may  *)
(* fail on any call (the outcomes are inputs of get_glyph), it reports a   *)
(* constant atlas size, and every atlas it creates has a fresh handle.     *)
(* The font parser, the MSDF rasterizer and the rectangle packer are       *)
(* external crates: the model keeps what the cache reads from them (the    *)
(* glyph's bounding box, the raster's dimensions, the packed position).    *)
(***************************************************************************)
EXTENDS Integers, Sequences, FiniteSets, TLC

\* ------------------------------------------------------------- bounds
\* With the bg-render feature: the number of faces the caller registers and
\* the number of distinct keys it requests over a run.
MaxFaces == 1
MaxKeys == 2
\* Without the feature: the same two numbers.
MaxFacesFg == 2
MaxKeysFg == 3
\* The handler's get_atlas_size(): every atlas is AtlasW x AtlasH texels.
AtlasW == 6
AtlasH == 2

\* ------------------------------------------------- the font (external)
\* Glyph ids the caller asks for.  Glyph 0 has no outline.
GlyphIds == {0, 1, 2}

\* face.units_per_em()
UnitsPerEm == 2

\* face.glyph_bounding_box(glyph): font units; some = FALSE is None.
glyph_bounding_box(glyph) ==
    CASE glyph = 1 -> [some |-> TRUE, x_min |-> 0, y_min |-> 0, x_max |-> 1, y_max |-> 2]
      [] glyph = 2 -> [some |-> TRUE, x_min |-> 0, y_min |-> 0, x_max |-> 6, y_max |-> 2]
      [] OTHER     -> [some |-> FALSE, x_min |-> 0, y_min |-> 0, x_max |-> 0, y_max |-> 0]

\* The rendering parameters add_face is called with.
FaceParams ==
    { [border_texels |-> 1, texels_per_em_x |-> tx, texels_per_em_y |-> 1] : tx \in {1, 2} }

\* Face indices the caller may name, registered or not.
FaceIdx == 0 .. ((IF MaxFaces > MaxFacesFg THEN MaxFaces ELSE MaxFacesFg) - 1)
Keys == FaceIdx \X GlyphIds

\* ------------------------------------------------------------ helpers
Min(a, b) == IF a <= b THEN a ELSE b

\* ceil(n / d) for n >= 0, d > 0
CeilDiv(n, d) == (n + d - 1) \div d

Range(s) == { s[i] : i \in 1 .. Len(s) }

\* ------------------------------------------------------- cache entries
\* GlyphStateInCache, plus "Absent" for a key that is not in the map.
Absent  == [t |-> "Absent",  atlas |-> -1, coords |-> -1]
Null    == [t |-> "Null",    atlas |-> -1, coords |-> -1]
Pending == [t |-> "Pending", atlas |-> -1, coords |-> -1]
Present(res) == [t |-> "Present", atlas |-> res.atlas, coords |-> res.coords]

is_pending(ent) == ent.t = "Pending"

\* ------------------------------------------- what get_glyph returns
OkNone == [t |-> "OkNone", atlas |-> -1, coords |-> -1, e |-> "-"]
OkSome(ent) == [t |-> "OkSome", atlas |-> ent.atlas, coords |-> ent.coords, e |-> "-"]
ErrOf(e) == [t |-> "Err", atlas |-> -1, coords |-> -1, e |-> e]
Panicked == [t |-> "Panic", atlas |-> -1, coords |-> -1, e |-> "-"]
\* No call has returned yet.
NoCall == [t |-> "NoCall", atlas |-> -1, coords |-> -1, e |-> "-"]

\* lib.rs 425-431: the stored state as the caller sees it
ret_of_entry(ent) == IF ent.t = "Present" THEN OkSome(ent) ELSE OkNone

VARIABLES
    faces,         \* TextHandler.faces: the parameters of each registered face
    atlases,       \* TextHandler.atlases: [handle, w, h, used] per bin
    glyphs,        \* TextHandler.glyphs: Keys -> entry (Absent: not in the map)
    render_in_bg,  \* TextHandler.render_in_bg
    command_q,     \* the command channel (command_tx -> command_rx)
    glyph_q,       \* the result channel (glyph_tx -> glyph_rx)
    wfaces,        \* the worker thread's faces
    wstate,        \* the worker thread: "running", "exited", "panicked"
                   \* ("none" in the build without bg-render)
    caller,        \* the TextHandler: "alive", "dropped", "panicked"
    adding,        \* the face of an add_face call that has sent its command
                   \* and not yet pushed the face: << >> or << face >>
    hlog,          \* the run so far: renders (render_glyph calls per key), adds
                   \* (add_to_atlas calls), news (new_atlas calls), jobs (keys
                   \* sent to the worker), refused (bins that refused a
                   \* rectangle), unasked / twice (results the cache discarded),
                   \* added (successful add_face calls), taken (keys of the
                   \* results taken off the result channel)
    resolved       \* Keys -> the first Ok(Some(..)) get_glyph returned for the key

vars == << faces, atlases, glyphs, render_in_bg, command_q, glyph_q,
           wfaces, wstate, caller, adding, hlog, resolved >>

\* ------------------------------------------------------ FaceState
\* A render_glyph without the .min(atlas_w) and .min(atlas_h).
render_glyph_uncapped(fs, glyph, atlas_w, atlas_h) ==
    LET bbox == glyph_bounding_box(glyph)
        per_em == UnitsPerEm
        raw_glyph_width == bbox.x_max - bbox.x_min
        raw_glyph_height == bbox.y_max - bbox.y_min
        sdf_width == CeilDiv(raw_glyph_width * fs.texels_per_em_x
                             + fs.border_texels * per_em, per_em)
        sdf_height == CeilDiv(raw_glyph_height * fs.texels_per_em_y
                              + fs.border_texels * per_em, per_em)
        sdf_width_int == sdf_width
        sdf_height_int == sdf_height
    IN  IF ~bbox.some
        THEN [some |-> FALSE, w |-> 0, h |-> 0]
        ELSE [some |-> TRUE, w |-> sdf_width_int, h |-> sdf_height_int]

\* FaceState::render_glyph: the raster's dimensions, or None (some = FALSE)
\* for a glyph without a bounding box.  sdf_width is
\* ceil(raw_width * texels_per_em_x / per_em + border_texels), capped at the
\* atlas width; the same for the height.
render_glyph(fs, glyph, atlas_w, atlas_h) ==
    LET bbox == glyph_bounding_box(glyph)
        per_em == UnitsPerEm
        raw_glyph_width == bbox.x_max - bbox.x_min
        raw_glyph_height == bbox.y_max - bbox.y_min
        sdf_width == CeilDiv(raw_glyph_width * fs.texels_per_em_x
                             + fs.border_texels * per_em, per_em)
        sdf_height == CeilDiv(raw_glyph_height * fs.texels_per_em_y
                              + fs.border_texels * per_em, per_em)
        sdf_width_int == Min(sdf_width, atlas_w)
        sdf_height_int == Min(sdf_height, atlas_h)
    IN  IF ~bbox.some
        THEN [some |-> FALSE, w |-> 0, h |-> 0]
        ELSE [some |-> TRUE, w |-> sdf_width_int, h |-> sdf_height_int]

\* ------------------------------------------------------ AtlasState
Overlap(a, b) ==
    /\ a.x < b.x + b.w /\ b.x < a.x + a.w
    /\ a.y < b.y + b.h /\ b.y < a.y + a.h

\* AtlasState::new: an empty packer of the given size
AtlasState_new(handle, w, h) == [handle |-> handle, w |-> w, h |-> h, used |-> {}]

\* The positions at which the packer of `state` can still hold a w x h
\* rectangle: inside the bin and clear of every rectangle it has handed out.
FreeAt(state, w, h) ==
    { p \in (0 .. (state.w - w)) \X (0 .. (state.h - h)) :
        \A u \in state.used :
            ~Overlap([x |-> p[1], y |-> p[2], w |-> w, h |-> h], u) }

\* The packer's choice among the free positions F: the lowest, then the
\* leftmost; fit = FALSE is None.
pack_at(F) ==
    IF F = {}
    THEN [fit |-> FALSE, x |-> 0, y |-> 0]
    ELSE LET p == CHOOSE p \in F : \A q \in F :
                         p[2] < q[2] \/ (p[2] = q[2] /\ p[1] <= q[1])
         IN  [fit |-> TRUE, x |-> p[1], y |-> p[2]]

\* AtlasState::attempt_fit: packer.pack(w, h, false), which refuses empty
\* rectangles.
attempt_fit(state, w, h) ==
    IF w <= 0 \/ h <= 0
    THEN [fit |-> FALSE, x |-> 0, y |-> 0]
    ELSE pack_at(FreeAt(state, w, h))

\* A packer that forgets what it handed out.
reserve_nothing(state, x, y, w, h) == state

\* The packer of `state` after it handed out the rectangle.
reserve(state, x, y, w, h) ==
    [state EXCEPT !.used = @ \cup {[x |-> x, y |-> y, w |-> w, h |-> h]}]

\* ---------------------------------------------------- AtlasHandler
\* What one handler call does when it is made: new_atlas succeeds iff na,
\* add_to_atlas succeeds iff add.
Outcomes == [na : BOOLEAN, add : BOOLEAN]

\* The outcome a call meets at its i-th handler use; a handler that is not
\* told to fail succeeds.
OutcomeAt(orc, i) == IF i \in DOMAIN orc THEN orc[i] ELSE [na |-> TRUE, add |-> TRUE]

\* AtlasHandler::get_atlas_size
get_atlas_size == [w |-> AtlasW, h |-> AtlasH]

\* AtlasHandler::new_atlas, when it succeeds: a handle no atlas has yet
NextHandle(log) == Cardinality({ i \in 1 .. Len(log.news) : log.news[i].ok })

\* ------------------------------------------------- put_into_atlas
PutResult(atls, log, t, atlas, coords, e) ==
    [atlases |-> atls, hlog |-> log, t |-> t, atlas |-> atlas, coords |-> coords, e |-> e]

\* The least element of a set of bin indices, 0 for the empty set
first_of(I) == IF I = {} THEN 0 ELSE CHOOSE i \in I : \A j \in I : i <= j

\* A scan that asks only the newest bin.
FirstFit_newest_only(atls, w, h) ==
    IF Len(atls) > 0 /\ attempt_fit(atls[Len(atls)], w, h).fit THEN Len(atls) ELSE 0

\* A scan without the break: the last bin that accepts wins.
FirstFit_no_break(atls, w, h) ==
    IF { i \in 1 .. Len(atls) : attempt_fit(atls[i], w, h).fit } = {}
    THEN 0
    ELSE CHOOSE i \in { j \in 1 .. Len(atls) : attempt_fit(atls[j], w, h).fit } :
             \A j \in i + 1 .. Len(atls) : ~attempt_fit(atls[j], w, h).fit

\* lib.rs 447-453: the index of the first bin whose packer accepts, 0 if none
FirstFit(atls, w, h) ==
    first_of({ i \in 1 .. Len(atls) : attempt_fit(atls[i], w, h).fit })

\* The log, with the bins at the indices `tried` noted as having refused
note_refused(log, atls, tried) ==
    [log EXCEPT !.refused = @ \cup { atls[i].handle : i \in tried }]

\* The log, with a new_atlas call noted
note_new(log, key, ok) ==
    [log EXCEPT !.news = Append(@, [key |-> key, ok |-> ok])]

\* lib.rs 473-482: handler.add_to_atlas on the chosen place, and its `?`.
\* The coords token the handler returns is its own: the number of the call.
upload(atls, log, key, handle, x, y, w, h, fresh, o) ==
    LET call == [atlas |-> handle, x |-> x, y |-> y, w |-> w, h |-> h,
                 key |-> key, ok |-> o.add, fresh |-> fresh,
                 stale |-> handle \in log.refused]
    IN  IF o.add
        THEN PutResult(atls, [log EXCEPT !.adds = Append(@, call)], "Ok",
                       handle, Len(log.adds) + 1, "-")
        ELSE PutResult(atls, [log EXCEPT !.adds = Append(@, call)], "Err",
                       -1, -1, "add_to_atlas")

\* A placement that gives the rectangle back when add_to_atlas fails.
put_existing_releases(atls, log, key, idx, fit, w, h, o) ==
    upload(IF o.add THEN [atls EXCEPT ![idx] = reserve(@, fit.x, fit.y, w, h)] ELSE atls,
           log, key, atls[idx].handle, fit.x, fit.y, w, h, FALSE, o)

\* lib.rs 448-451: the bin at idx accepted, at fit
put_existing(atls, log, key, idx, fit, w, h, o) ==
    upload([atls EXCEPT ![idx] = reserve(@, fit.x, fit.y, w, h)], log, key,
           atls[idx].handle, fit.x, fit.y, w, h, FALSE, o)

\* lib.rs 460-470: the new bin `state` is appended and must accept
put_fresh(atls, log, key, state, fit, w, h, o) ==
    IF fit.fit
    THEN upload(Append(atls, reserve(state, fit.x, fit.y, w, h)), log, key,
                state.handle, fit.x, fit.y, w, h, TRUE, o)
    ELSE \* unreachable!()
         PutResult(Append(atls, state), log, "Panic", -1, -1, "-")

\* A put_into_atlas that appends the bin before it asks the handler for it.
put_new_keeps_bin(atls, log, key, atlas_w, atlas_h, w, h, o) ==
    IF ~o.na
    THEN PutResult(Append(atls, AtlasState_new(NextHandle(log), atlas_w, atlas_h)),
                   note_new(log, key, FALSE), "Err", -1, -1, "new_atlas")
    ELSE put_fresh(atls, note_new(log, key, TRUE), key,
                   AtlasState_new(NextHandle(log), atlas_w, atlas_h),
                   attempt_fit(AtlasState_new(NextHandle(log), atlas_w, atlas_h), w, h),
                   w, h, o)

\* lib.rs 456-459: no bin accepted; handler.new_atlas()?
put_new(atls, log, key, atlas_w, atlas_h, w, h, o) ==
    IF ~o.na
    THEN PutResult(atls, note_new(log, key, FALSE), "Err", -1, -1, "new_atlas")
    ELSE put_fresh(atls, note_new(log, key, TRUE), key,
                   AtlasState_new(NextHandle(log), atlas_w, atlas_h),
                   attempt_fit(AtlasState_new(NextHandle(log), atlas_w, atlas_h), w, h),
                   w, h, o)

\* lib.rs 454-472: the place, given the index the loop over the bins found
put_at(atls, log, key, atlas_w, atlas_h, w, h, o, idx) ==
    IF idx # 0
    THEN put_existing(atls, note_refused(log, atls, 1 .. (idx - 1)), key, idx,
                      attempt_fit(atls[idx], w, h), w, h, o)
    ELSE put_new(atls, note_refused(log, atls, 1 .. Len(atls)), key,
                 atlas_w, atlas_h, w, h, o)

put_into_atlas(atls, log, key, atlas_w, atlas_h, sdf_width_int, sdf_height_int, o) ==
    put_at(atls, log, key, atlas_w, atlas_h, sdf_width_int, sdf_height_int, o,
           FirstFit(atls, sdf_width_int, sdf_height_int))

\* ------------------------------------------------ TextHandler::get_glyph
\* The caller-side state one get_glyph call works on: the cache, the bins,
\* the log, the keys whose reconciliation failed in this call, whether the
\* call has panicked, and the number of results it took off the channel.
CallState(g, atls, log) ==
    [glyphs |-> g, atlases |-> atls, hlog |-> log, failed |-> {},
     panic |-> FALSE, taken |-> 0]

\* A reconciliation that forgets the key when the handler fails, so that
\* the next request renders it again.
settle_forgets(c, key, res) ==
    CASE res.t = "Ok"  -> [c EXCEPT !.atlases = res.atlases, !.hlog = res.hlog,
                                    !.glyphs[key] = Present(res)]
      [] res.t = "Err" -> [c EXCEPT !.atlases = res.atlases, !.hlog = res.hlog,
                                    !.glyphs[key] = Absent,
                                    !.failed = @ \cup {key}]
      [] OTHER         -> [c EXCEPT !.atlases = res.atlases, !.hlog = res.hlog,
                                    !.panic = TRUE]

\* lib.rs 362-372: the cache entry after put_into_atlas returned res for a
\* background result
settle(c, key, res) ==
    CASE res.t = "Ok"  -> [c EXCEPT !.atlases = res.atlases, !.hlog = res.hlog,
                                    !.glyphs[key] = Present(res)]
      [] res.t = "Err" -> [c EXCEPT !.atlases = res.atlases, !.hlog = res.hlog,
                                    !.glyphs[key] = Null,
                                    !.failed = @ \cup {key}]
      [] OTHER         -> [c EXCEPT !.atlases = res.atlases, !.hlog = res.hlog,
                                    !.panic = TRUE]

\* lib.rs 347-379: one result taken off the result channel
reconcile(c, r, o) ==
    IF c.glyphs[<< r.face, r.glyph >>].t = "Absent"
    THEN [c EXCEPT !.taken = @ + 1, !.hlog.unasked = @ \cup {<< r.face, r.glyph >>},
                   !.hlog.taken = Append(@, << r.face, r.glyph >>)]
    ELSE IF is_pending(c.glyphs[<< r.face, r.glyph >>])
    THEN settle([c EXCEPT !.taken = @ + 1], << r.face, r.glyph >>,
                put_into_atlas(c.atlases,
                               [c.hlog EXCEPT !.taken = Append(@, << r.face, r.glyph >>)],
                               << r.face, r.glyph >>,
                               get_atlas_size.w, get_atlas_size.h, r.w, r.h, o))
    ELSE [c EXCEPT !.taken = @ + 1, !.hlog.twice = @ \cup {<< r.face, r.glyph >>},
                   !.hlog.taken = Append(@, << r.face, r.glyph >>)]

\* A get_glyph that never polls the result channel.
drain_nothing(c, q, orc, i) == c

\* A get_glyph that takes at most one result off the result channel.
drain_one(c, q, orc, i) ==
    IF i > Len(q) \/ c.panic
    THEN c
    ELSE reconcile(c, q[i], OutcomeAt(orc, i))

\* lib.rs 343-380: while let Some(..) = self.bg.next_rendered_glyph()
RECURSIVE drain(_, _, _, _)
drain(c, q, orc, i) ==
    IF i > Len(q) \/ c.panic
    THEN c
    ELSE drain(reconcile(c, q[i], OutcomeAt(orc, i)), q, orc, i + 1)

LookupResult(c, ret, cmds, miss) == [c |-> c, ret |-> ret, cmds |-> cmds, miss |-> miss]

\* The FaceState field of a command that carries none
NoFace == [border_texels |-> 0, texels_per_em_x |-> 0, texels_per_em_y |-> 0]

\* A RenderGlyph command that names another glyph than the one asked for.
RenderGlyphCmd_other_glyph(face_index, glyph_id, atlas_w, atlas_h) ==
    [cmd |-> "RenderGlyph", face_index |-> face_index,
     glyph_id |-> IF glyph_id = 1 THEN 2 ELSE 1,
     atlas_w |-> atlas_w, atlas_h |-> atlas_h, fs |-> NoFace]

\* bg.rs 74-80: the command Renderer::render_glyph sends
RenderGlyphCmd(face_index, glyph_id, atlas_w, atlas_h) ==
    [cmd |-> "RenderGlyph", face_index |-> face_index, glyph_id |-> glyph_id,
     atlas_w |-> atlas_w, atlas_h |-> atlas_h, fs |-> NoFace]

\* A synchronous resolution that inserts no entry when the handler fails.
settle_sync_retries(c, key, res) ==
    CASE res.t = "Ok" ->
           LookupResult([c EXCEPT !.atlases = res.atlases, !.hlog = res.hlog,
                                  !.glyphs[key] = Present(res)],
                        OkSome(res), << >>, TRUE)
      [] res.t = "Err" ->
           LookupResult([c EXCEPT !.atlases = res.atlases, !.hlog = res.hlog],
                        ErrOf(res.e), << >>, TRUE)
      [] OTHER ->
           LookupResult([c EXCEPT !.atlases = res.atlases, !.hlog = res.hlog,
                                  !.panic = TRUE],
                        Panicked, << >>, TRUE)

\* lib.rs 414-420: the entry and the answer after put_into_atlas returned res
\* in the synchronous resolution
settle_sync(c, key, res) ==
    CASE res.t = "Ok" ->
           LookupResult([c EXCEPT !.atlases = res.atlases, !.hlog = res.hlog,
                                  !.glyphs[key] = Present(res)],
                        OkSome(res), << >>, TRUE)
      [] res.t = "Err" ->
           LookupResult([c EXCEPT !.atlases = res.atlases, !.hlog = res.hlog,
                                  !.glyphs[key] = Null],
                        ErrOf(res.e), << >>, TRUE)
      [] OTHER ->
           LookupResult([c EXCEPT !.atlases = res.atlases, !.hlog = res.hlog,
                                  !.panic = TRUE],
                        Panicked, << >>, TRUE)

\* A synchronous resolution that inserts no entry for a glyph without outline.
resolve_sync_forgets_none(c, key, r, o) ==
    IF ~r.some
    THEN LookupResult([c EXCEPT !.hlog.renders[key] = @ + 1], OkNone, << >>, TRUE)
    ELSE settle_sync(c, key,
                     put_into_atlas(c.atlases,
                                    [c.hlog EXCEPT !.renders[key] = @ + 1], key,
                                    get_atlas_size.w, get_atlas_size.h, r.w, r.h, o))

\* lib.rs 401-413: the glyph rendered by the caller's own face: r
resolve_sync(c, key, r, o) ==
    IF ~r.some
    THEN LookupResult([c EXCEPT !.glyphs[key] = Null, !.hlog.renders[key] = @ + 1],
                      OkNone, << >>, TRUE)
    ELSE settle_sync(c, key,
                     put_into_atlas(c.atlases,
                                    [c.hlog EXCEPT !.renders[key] = @ + 1], key,
                                    get_atlas_size.w, get_atlas_size.h, r.w, r.h, o))

\* A closure that hands the glyph to the worker whatever the toggle says.
resolve_miss_always_bg(c, face, glyph, o, fcs, in_bg, rx_alive) ==
    IF ~rx_alive
    THEN LookupResult([c EXCEPT !.panic = TRUE], Panicked, << >>, TRUE)
    ELSE LookupResult([c EXCEPT !.glyphs[<< face, glyph >>] = Pending,
                                !.hlog.jobs = Append(@, << face, glyph >>)],
                      OkNone,
                      << RenderGlyphCmd(face, glyph, get_atlas_size.w,
                                        get_atlas_size.h) >>,
                      TRUE)

\* lib.rs 382-422: or_insert_with's closure, run for a key that is not in
\* the map.  rx_alive: the worker still holds command_rx (a send succeeds).
resolve_miss(c, face, glyph, o, fcs, in_bg, rx_alive) ==
    IF in_bg
    THEN IF ~rx_alive
         THEN \* .expect("background render thread died?")
              LookupResult([c EXCEPT !.panic = TRUE], Panicked, << >>, TRUE)
         ELSE LookupResult([c EXCEPT !.glyphs[<< face, glyph >>] = Pending,
                                     !.hlog.jobs = Append(@, << face, glyph >>)],
                           OkNone,
                           << RenderGlyphCmd(face, glyph, get_atlas_size.w,
                                             get_atlas_size.h) >>,
                           TRUE)
    ELSE IF face >= Len(fcs)
    THEN \* .expect("Face index out of range")
         LookupResult([c EXCEPT !.panic = TRUE], Panicked, << >>, TRUE)
    ELSE resolve_sync(c, << face, glyph >>,
                      render_glyph(fcs[face + 1], glyph,
                                   get_atlas_size.w, get_atlas_size.h), o)

\* A lookup that never finds the key: the closure runs on every call.
lookup_always_miss(c, face, glyph, o, fcs, in_bg, rx_alive) ==
    resolve_miss(c, face, glyph, o, fcs, in_bg, rx_alive)

\* A lookup that takes a Pending entry for a missing one.
lookup_pending_miss(c, face, glyph, o, fcs, in_bg, rx_alive) ==
    IF c.glyphs[<< face, glyph >>].t \notin {"Absent", "Pending"}
    THEN LookupResult(c, ret_of_entry(c.glyphs[<< face, glyph >>]), << >>, FALSE)
    ELSE resolve_miss(c, face, glyph, o, fcs, in_bg, rx_alive)

\* lib.rs 381-433: the lookup of the requested key, and what is returned
lookup(c, face, glyph, o, fcs, in_bg, rx_alive) ==
    IF c.glyphs[<< face, glyph >>].t # "Absent"
    THEN LookupResult(c, ret_of_entry(c.glyphs[<< face, glyph >>]), << >>, FALSE)
    ELSE resolve_miss(c, face, glyph, o, fcs, in_bg, rx_alive)

\* What the call leaves and returns: c1 is the state after the drain, r the
\* lookup's result.
CallResult(c1, r) ==
    [c1 |-> c1, c |-> r.c, ret |-> r.ret, cmds |-> r.cmds, miss |-> r.miss]

\* A call that returns an error when its reconciliation met one.
after_drain_reports(c1, face, glyph, o, fcs, in_bg, rx_alive) ==
    IF c1.panic
    THEN CallResult(c1, LookupResult(c1, Panicked, << >>, FALSE))
    ELSE IF c1.failed # {}
    THEN CallResult(c1, LookupResult(c1, ErrOf("add_to_atlas"), << >>, FALSE))
    ELSE CallResult(c1, lookup(c1, face, glyph, o, fcs, in_bg, rx_alive))

\* lib.rs 381-433, after the drain left c1
after_drain(c1, face, glyph, o, fcs, in_bg, rx_alive) ==
    IF c1.panic
    THEN CallResult(c1, LookupResult(c1, Panicked, << >>, FALSE))
    ELSE CallResult(c1, lookup(c1, face, glyph, o, fcs, in_bg, rx_alive))

\* The whole call: drain and reconcile, then look the key up.
get_glyph(g, atls, log, q, face, glyph, orc, fcs, in_bg, rx_alive) ==
    after_drain(drain(CallState(g, atls, log), q, orc, 1), face, glyph,
                OutcomeAt(orc, Len(q) + 1), fcs, in_bg, rx_alive)

\* ---------------------------------------------------------------- Init
\* TextHandler::new (lib.rs 279-287) and Renderer::new (bg.rs 28-64)
EmptyLog ==
    [renders |-> [k \in Keys |-> 0], adds |-> << >>, news |-> << >>,
     jobs |-> << >>, refused |-> {}, unasked |-> {}, twice |-> {},
     added |-> << >>, taken |-> << >>]

Init ==
    /\ faces = << >>
    /\ atlases = << >>
    /\ glyphs = [k \in Keys |-> Absent]
    /\ render_in_bg = TRUE
    /\ command_q = << >>
    /\ glyph_q = << >>
    /\ wfaces = << >>
    /\ wstate = "running"
    /\ caller = "alive"
    /\ adding = << >>
    /\ hlog = EmptyLog
    /\ resolved = [k \in Keys |-> NoCall]

\* ------------------------------------------------- the caller's thread
\* An AddFace command that carries default parameters instead of the face's.
AddFaceCmd_defaults(fs) ==
    [cmd |-> "AddFace", face_index |-> 0, glyph_id |-> 0,
     atlas_w |-> 0, atlas_h |-> 0, fs |-> [border_texels |-> 1, texels_per_em_x |-> 1,
                                             texels_per_em_y |-> 1]]

\* bg.rs 65-73: the command Renderer::add_face sends
AddFaceCmd(fs) ==
    [cmd |-> "AddFace", face_index |-> 0, glyph_id |-> 0,
     atlas_w |-> 0, atlas_h |-> 0, fs |-> fs]

\* An add_face that returns the length of the list after the push.
add_face_returns_len(fcs, parses, fs, bg_feature, rx_alive) ==
    IF ~parses
    THEN [faces |-> fcs, cmds |-> << >>, ret |-> -1, panic |-> FALSE]
    ELSE IF bg_feature /\ ~rx_alive
    THEN [faces |-> fcs, cmds |-> << >>, ret |-> -1, panic |-> TRUE]
    ELSE [faces |-> Append(fcs, fs),
          cmds |-> IF bg_feature THEN << AddFaceCmd(fs) >> ELSE << >>,
          ret |-> Len(fcs) + 1, panic |-> FALSE]

\* TextHandler::add_face (lib.rs 314-327) on the face list fcs.  parses:
\* Face::from_slice succeeds; bg_feature: the build has the bg-render
\* feature.  ret is the handle, -1 for None; cmds is what is sent to the
\* worker.
add_face(fcs, parses, fs, bg_feature, rx_alive) ==
    IF ~parses
    THEN [faces |-> fcs, cmds |-> << >>, ret |-> -1, panic |-> FALSE]
    ELSE IF bg_feature /\ ~rx_alive
    THEN \* .expect("background render thread died?")
         [faces |-> fcs, cmds |-> << >>, ret |-> -1, panic |-> TRUE]
    ELSE [faces |-> Append(fcs, fs),
          cmds |-> IF bg_feature THEN << AddFaceCmd(fs) >> ELSE << >>,
          ret |-> Len(fcs), panic |-> FALSE]

AddFaceCall(parses, fs, bg_feature) ==
    /\ caller = "alive"
    /\ \E r \in { add_face(faces, parses, fs, bg_feature, wstate = "running") } :
          /\ faces' = r.faces
          /\ command_q' = command_q \o r.cmds
          /\ caller' = IF r.panic THEN "panicked" ELSE caller
          /\ hlog' = IF r.ret >= 0
                     THEN [hlog EXCEPT !.added =
                               Append(@, [handle |-> r.ret, fs |-> fs])]
                     ELSE hlog
    /\ UNCHANGED << adding, atlases, glyphs, render_in_bg, glyph_q, wfaces, wstate,
                    resolved >>

\* TextHandler::get_face / get_face_mut (lib.rs 328-336): self.faces.get(i)
get_face(fcs, i) ==
    IF i < Len(fcs)
    THEN [some |-> TRUE, face |-> fcs[i + 1]]
    ELSE [some |-> FALSE, face |-> NoFace]

AddFace ==
    /\ Len(faces) < MaxFaces
    /\ \E parses \in BOOLEAN, fs \in FaceParams : AddFaceCall(parses, fs, TRUE)

\* A toggle that, switched off, drops the Pending entries so that they are
\* resolved anew.
set_render_in_background_resets(nu) ==
    /\ caller = "alive"
    /\ render_in_bg' = nu
    /\ glyphs' = [k \in Keys |-> IF ~nu /\ glyphs[k].t = "Pending"
                                 THEN Absent ELSE glyphs[k]]
    /\ UNCHANGED << faces, adding, atlases, command_q, glyph_q, wfaces, wstate,
                    caller, hlog, resolved >>

\* TextHandler::set_render_in_background (lib.rs 302-305)
set_render_in_background(nu) ==
    /\ caller = "alive"
    /\ render_in_bg' = nu
    /\ UNCHANGED << faces, adding, atlases, glyphs, command_q, glyph_q, wfaces, wstate,
                    caller, hlog, resolved >>

SetRenderInBackground == \E nu \in BOOLEAN : set_render_in_background(nu)

\* The keys the caller has asked for so far.
Requested == { k \in Keys : glyphs[k].t # "Absent" }

\* The handler outcomes one call can meet: one per queued result, and one
\* for the synchronous resolution of a missing key.
Oracles(face, glyph) ==
    [ 1 .. (Len(glyph_q)
            + (IF glyphs[<< face, glyph >>].t = "Absent" /\ ~render_in_bg
               THEN 1 ELSE 0)) -> Outcomes ]

\* One call of TextHandler::get_glyph (lib.rs 339-433)
GetGlyphCall(face, glyph, orc) ==
    /\ caller = "alive"
    /\ \E r \in { get_glyph(glyphs, atlases, hlog, glyph_q, face, glyph, orc,
                              faces, render_in_bg, wstate = "running") } :
       LET key == << face, glyph >>
       IN  /\ glyphs' = r.c.glyphs
           /\ atlases' = r.c.atlases
           /\ hlog' = r.c.hlog
           /\ glyph_q' = SubSeq(glyph_q, r.c1.taken + 1, Len(glyph_q))
           /\ command_q' = command_q \o r.cmds
           /\ caller' = IF r.c.panic THEN "panicked" ELSE caller
           /\ resolved' = IF r.ret.t = "OkSome" /\ resolved[key].t = "NoCall"
                          THEN [resolved EXCEPT ![key] = r.ret]
                          ELSE resolved
    /\ UNCHANGED << faces, adding, render_in_bg, wfaces, wstate >>

\* The caller may ask for k: it asked for it before, or it has asked for
\* fewer than max_keys keys.
KeyBudget(k, max_keys) == k \in Requested \/ Cardinality(Requested) < max_keys

\* The caller keeps its contract: the face index is a handle add_face returned.
GetGlyph ==
    \E face \in 0 .. (Len(faces) - 1), glyph \in GlyphIds :
        /\ KeyBudget(<< face, glyph >>, MaxKeys)
        /\ \E orc \in Oracles(face, glyph) : GetGlyphCall(face, glyph, orc)

\* The TextHandler is dropped: command_tx and glyph_rx go with it.
Drop ==
    /\ caller = "alive"
    /\ caller' = "dropped"
    /\ UNCHANGED << faces, adding, atlases, glyphs, render_in_bg, command_q, glyph_q,
                    wfaces, wstate, hlog, resolved >>

\* --------------------------------------------------- the worker thread
\* A worker that takes the newest command first.
WorkerStep_lifo ==
    /\ wstate = "running"
    /\ command_q # << >>
    /\ LET cmd == command_q[Len(command_q)]
       IN  /\ command_q' = SubSeq(command_q, 1, Len(command_q) - 1)
           /\ IF cmd.cmd = "AddFace"
              THEN /\ wfaces' = Append(wfaces, cmd.fs)
                   /\ UNCHANGED << wstate, glyph_q, hlog >>
              ELSE IF cmd.face_index >= Len(wfaces)
              THEN \* .expect("Face index out of range? ...")
                   /\ wstate' = "panicked"
                   /\ UNCHANGED << wfaces, glyph_q, hlog >>
              ELSE LET key == << cmd.face_index, cmd.glyph_id >>
                       res == render_glyph(wfaces[cmd.face_index + 1], cmd.glyph_id,
                                           cmd.atlas_w, cmd.atlas_h)
                   IN  /\ hlog' = [hlog EXCEPT !.renders[key] = @ + 1]
                       /\ UNCHANGED wfaces
                       /\ IF ~res.some
                          THEN UNCHANGED << wstate, glyph_q >>
                          ELSE IF caller # "alive"
                          THEN \* glyph_tx.send(res).is_err(): break
                               /\ wstate' = "exited"
                               /\ UNCHANGED glyph_q
                          ELSE /\ glyph_q' = Append(glyph_q,
                                      [face |-> cmd.face_index, glyph |-> cmd.glyph_id,
                                       w |-> res.w, h |-> res.h])
                               /\ UNCHANGED wstate
    /\ UNCHANGED << faces, adding, atlases, glyphs, render_in_bg, caller, resolved >>

\* A worker that sends an empty raster for a glyph without outline.
WorkerStep_sends_none ==
    /\ wstate = "running"
    /\ command_q # << >>
    /\ LET cmd == Head(command_q)
       IN  /\ command_q' = Tail(command_q)
           /\ IF cmd.cmd = "AddFace"
              THEN /\ wfaces' = Append(wfaces, cmd.fs)
                   /\ UNCHANGED << wstate, glyph_q, hlog >>
              ELSE IF cmd.face_index >= Len(wfaces)
              THEN \* .expect("Face index out of range? ...")
                   /\ wstate' = "panicked"
                   /\ UNCHANGED << wfaces, glyph_q, hlog >>
              ELSE LET key == << cmd.face_index, cmd.glyph_id >>
                       res == render_glyph(wfaces[cmd.face_index + 1], cmd.glyph_id,
                                           cmd.atlas_w, cmd.atlas_h)
                   IN  /\ hlog' = [hlog EXCEPT !.renders[key] = @ + 1]
                       /\ UNCHANGED wfaces
                       /\ IF ~res.some /\ caller # "alive"
                          THEN UNCHANGED << wstate, glyph_q >>
                          ELSE IF caller # "alive"
                          THEN \* glyph_tx.send(res).is_err(): break
                               /\ wstate' = "exited"
                               /\ UNCHANGED glyph_q
                          ELSE /\ glyph_q' = Append(glyph_q,
                                      [face |-> cmd.face_index, glyph |-> cmd.glyph_id,
                                       w |-> res.w, h |-> res.h])
                               /\ UNCHANGED wstate
    /\ UNCHANGED << faces, adding, atlases, glyphs, render_in_bg, caller, resolved >>

\* bg.rs 35-58: one iteration of the loop, on the command at the head of
\* the channel.
WorkerStep ==
    /\ wstate = "running"
    /\ command_q # << >>
    /\ LET cmd == Head(command_q)
       IN  /\ command_q' = Tail(command_q)
           /\ IF cmd.cmd = "AddFace"
              THEN /\ wfaces' = Append(wfaces, cmd.fs)
                   /\ UNCHANGED << wstate, glyph_q, hlog >>
              ELSE IF cmd.face_index >= Len(wfaces)
              THEN \* .expect("Face index out of range? ...")
                   /\ wstate' = "panicked"
                   /\ UNCHANGED << wfaces, glyph_q, hlog >>
              ELSE LET key == << cmd.face_index, cmd.glyph_id >>
                       res == render_glyph(wfaces[cmd.face_index + 1], cmd.glyph_id,
                                           cmd.atlas_w, cmd.atlas_h)
                   IN  /\ hlog' = [hlog EXCEPT !.renders[key] = @ + 1]
                       /\ UNCHANGED wfaces
                       /\ IF ~res.some
                          THEN UNCHANGED << wstate, glyph_q >>
                          ELSE IF caller # "alive"
                          THEN \* glyph_tx.send(res).is_err(): break
                               /\ wstate' = "exited"
                               /\ UNCHANGED glyph_q
                          ELSE /\ glyph_q' = Append(glyph_q,
                                      [face |-> cmd.face_index, glyph |-> cmd.glyph_id,
                                       w |-> res.w, h |-> res.h])
                               /\ UNCHANGED wstate
    /\ UNCHANGED << faces, adding, atlases, glyphs, render_in_bg, caller, resolved >>

\* A recv() that keeps blocking after the sender is gone.
WorkerExit_blocks ==
    /\ wstate = "running"
    /\ command_q = << >>
    /\ caller # "alive"
    /\ UNCHANGED vars

\* bg.rs 35: command_rx.recv() is Err once the sender is gone and the
\* channel is empty; the loop ends.
WorkerExit ==
    /\ wstate = "running"
    /\ command_q = << >>
    /\ caller # "alive"
    /\ wstate' = "exited"
    /\ UNCHANGED << faces, adding, atlases, glyphs, render_in_bg, command_q, glyph_q,
                    wfaces, caller, hlog, resolved >>

\* The TextHandler lives on: the caller's calls and the worker's loop.
Next ==
    \/ AddFace
    \/ SetRenderInBackground
    \/ GetGlyph
    \/ WorkerStep

Spec == Init /\ [][Next]_vars

\* The same, with the TextHandler dropped at some point.
NextDrop ==
    \/ AddFace
    \/ SetRenderInBackground
    \/ GetGlyph
    \/ WorkerStep
    \/ Drop
    \/ WorkerExit

SpecDrop == Init /\ [][NextDrop]_vars

\* SpecDrop with the worker thread scheduled: it blocks only in recv()
\* (bg.rs 35), which returns when a command is waiting or the sender is gone.
SpecDropFair ==
    /\ Init
    /\ [][NextDrop]_vars
    /\ WF_vars(WorkerStep)
    /\ WF_vars(WorkerExit)

\* ------------------------------------------- a caller that breaks the contract
\* get_glyph with any face index, registered or not.
GetGlyphAny ==
    \E face \in FaceIdx, glyph \in GlyphIds :
        /\ KeyBudget(<< face, glyph >>, MaxKeys)
        /\ \E orc \in Oracles(face, glyph) : GetGlyphCall(face, glyph, orc)

NextMisuse ==
    \/ AddFace
    \/ SetRenderInBackground
    \/ GetGlyphAny
    \/ WorkerStep

SpecMisuse == Init /\ [][NextMisuse]_vars

\* ------------------------------------------- add_face, statement by statement
\* lib.rs 318-323: the face parses and the AddFace command is sent; the
\* push onto self.faces is still to come.
AddFaceSend ==
    /\ caller = "alive"
    /\ adding = << >>
    /\ Len(faces) < MaxFaces
    /\ \E fs \in FaceParams :
          IF wstate = "running"
          THEN /\ command_q' = Append(command_q, AddFaceCmd(fs))
               /\ adding' = << fs >>
               /\ UNCHANGED caller
          ELSE \* .expect("background render thread died?")
               /\ caller' = "panicked"
               /\ UNCHANGED << command_q, adding >>
    /\ UNCHANGED << faces, atlases, glyphs, render_in_bg, glyph_q, wfaces,
                    wstate, hlog, resolved >>

\* lib.rs 324-326: self.faces.push(..); Some(self.faces.len()-1)
AddFacePush ==
    /\ caller = "alive"
    /\ adding # << >>
    /\ faces' = Append(faces, adding[1])
    /\ adding' = << >>
    /\ hlog' = [hlog EXCEPT !.added =
                    Append(@, [handle |-> Len(faces), fs |-> adding[1]])]
    /\ UNCHANGED << atlases, glyphs, render_in_bg, command_q, glyph_q, wfaces,
                    wstate, caller, resolved >>

\* The caller's thread makes one call at a time.
SetRenderInBackgroundIdle == adding = << >> /\ SetRenderInBackground

GetGlyphIdle == adding = << >> /\ GetGlyph

NextSteps ==
    \/ AddFaceSend
    \/ AddFacePush
    \/ SetRenderInBackgroundIdle
    \/ GetGlyphIdle
    \/ WorkerStep

SpecSteps == Init /\ [][NextSteps]_vars

\* ------------------------------------------- fair scheduling
\* get_glyph for a key the caller has asked for before, with a handler
\* whose new_atlas and add_to_atlas succeed.
Poll(k) ==
    /\ k[1] < Len(faces)
    /\ k \in Requested
    /\ GetGlyphCall(k[1], k[2], << >>)

\* get_glyph with a handler whose new_atlas and add_to_atlas succeed.
GetGlyphOk ==
    \E face \in 0 .. (Len(faces) - 1), glyph \in GlyphIds :
        /\ KeyBudget(<< face, glyph >>, MaxKeys)
        /\ GetGlyphCall(face, glyph, << >>)

NextLive ==
    \/ AddFace
    \/ SetRenderInBackground
    \/ GetGlyphOk
    \/ WorkerStep

\* Poll(k) can be taken and changes the state: it takes a result off the
\* channel, or it returns a placement no call has returned yet.  This is
\* ENABLED <<Poll(k)>>_vars, written as a state predicate.
PollChanges(k) ==
    /\ caller = "alive"
    /\ k[1] < Len(faces)
    /\ k \in Requested
    /\ \E r \in { get_glyph(glyphs, atlases, hlog, glyph_q, k[1], k[2], << >>,
                             faces, render_in_bg, wstate = "running") } :
          \/ r.c1.taken > 0
          \/ r.c.panic
          \/ r.c.glyphs # glyphs \/ r.c.atlases # atlases \/ r.c.hlog # hlog
          \/ r.cmds # << >>
          \/ (resolved[k].t = "NoCall" /\ r.ret.t = "OkSome")

\* Weak fairness of the caller's polling, WF_vars(\E k \in Keys : Poll(k)),
\* with its enabling condition spelt out as PollChanges.
PollFair ==
    \/ []<>(\A k \in Keys : ~PollChanges(k))
    \/ []<><<\E k \in Keys : Poll(k)>>_vars

\* The worker thread is scheduled (bg.rs 35: it blocks only in recv()), the
\* handler succeeds, and the caller keeps asking for the keys it has asked
\* for.
SpecLive ==
    /\ Init
    /\ [][NextLive]_vars
    /\ WF_vars(WorkerStep)
    /\ PollFair

\* ------------------------------------ the build without bg-render
\* TextHandler::new without the feature: no Renderer, no worker thread, and
\* render_in_bg is the constant false of lib.rs 386.
InitFg ==
    /\ faces = << >>
    /\ atlases = << >>
    /\ glyphs = [k \in Keys |-> Absent]
    /\ render_in_bg = FALSE
    /\ command_q = << >>
    /\ glyph_q = << >>
    /\ wfaces = << >>
    /\ wstate = "none"
    /\ caller = "alive"
    /\ adding = << >>
    /\ hlog = EmptyLog
    /\ resolved = [k \in Keys |-> NoCall]

AddFaceFg ==
    /\ Len(faces) < MaxFacesFg
    /\ \E parses \in BOOLEAN, fs \in FaceParams : AddFaceCall(parses, fs, FALSE)

GetGlyphFg ==
    \E face \in 0 .. (Len(faces) - 1), glyph \in GlyphIds :
        /\ KeyBudget(<< face, glyph >>, MaxKeysFg)
        /\ \E orc \in Oracles(face, glyph) : GetGlyphCall(face, glyph, orc)

NextFg ==
    \/ AddFaceFg
    \/ GetGlyphFg

SpecFg == InitFg /\ [][NextFg]_vars

\* ======================================================================
\* What the claims speak of
\* ======================================================================
\* The key names a registered face.
ValidKey(k) == k[1] < Len(faces)

\* The glyph of the key has an outline (render_glyph yields Some).
HasOutline(k) == glyph_bounding_box(k[2]).some

\* The caller can call get_glyph for k in this state.
CanCall(k) ==
    /\ caller = "alive"
    /\ ValidKey(k)
    /\ KeyBudget(k, IF wstate = "none" THEN MaxKeysFg ELSE MaxKeys)

\* What a get_glyph call for k does in this state, for every behaviour of
\* the handler.
CallsOf(k) ==
    { get_glyph(glyphs, atlases, hlog, glyph_q, k[1], k[2], orc, faces,
                render_in_bg, wstate = "running") : orc \in Oracles(k[1], k[2]) }

\* The add_to_atlas and new_atlas calls of a log made for key k.
AddsFor(log, k) == { i \in 1 .. Len(log.adds) : log.adds[i].key = k }
NewsFor(log, k) == { i \in 1 .. Len(log.news) : log.news[i].key = k }

\* The key was sent to the worker.
Dispatched(k) == k \in Range(hlog.jobs)

\* ----------------------------------------------------------------- C1
\* C1: once a get_glyph call for a key has returned Ok(Some((atlas, coords))),
\* every get_glyph call for that key returns the same (atlas, coords), and
\* over the run the key was rasterized at most once and add_to_atlas was
\* called at most once for it.
C1_Idempotent ==
    \A k \in Keys :
        resolved[k].t = "OkSome" =>
            /\ hlog.renders[k] <= 1
            /\ Cardinality(AddsFor(hlog, k)) <= 1
            /\ CanCall(k) => \A r \in CallsOf(k) : r.ret = resolved[k]

\* Two keys have been returned, one resolved in the background and one
\* synchronously.
C1_Witness ==
    \E k1, k2 \in Keys :
        /\ resolved[k1].t = "OkSome" /\ Dispatched(k1)
        /\ resolved[k2].t = "OkSome" /\ ~Dispatched(k2)

\* ----------------------------------------------------------------- C2
\* What one step may do to the entry of k
C2_EntryStep(k) ==
    /\ glyphs[k].t \in {"Present", "Null"} => glyphs'[k] = glyphs[k]
    /\ glyphs[k].t = "Pending" => glyphs'[k].t \in {"Pending", "Present", "Null"}
    /\ glyphs[k].t # "Absent" => glyphs'[k].t # "Absent"

\* C2: in every step and for every key, the cache entry moves only along
\* absent -> Pending -> Present | Null or absent -> Present | Null: a Present
\* or Null entry never changes again, a Pending entry never becomes absent,
\* and no entry leaves the map.
C2_Monotone == [][\A k \in Keys : C2_EntryStep(k)]_vars

\* One key went through Pending and is Present, another went through
\* Pending and is Null.
C2_Witness ==
    \E k1, k2 \in Keys :
        /\ glyphs[k1].t = "Present" /\ Dispatched(k1)
        /\ glyphs[k2].t = "Null" /\ Dispatched(k2)

\* ----------------------------------------------------------------- C3
\* In background mode a call for a key that is not in the cache, of a glyph
\* with an outline, returns Ok(None) and leaves Pending.
C3_FirstCall ==
    \A k \in Keys :
        (render_in_bg /\ glyphs[k].t = "Absent" /\ HasOutline(k) /\ CanCall(k)) =>
            \A r \in CallsOf(k) : r.ret = OkNone /\ r.c.glyphs[k] = Pending

\* C3: with background rendering enabled, the first get_glyph call for a
\* key that is not in the cache and whose glyph has an outline returns
\* Ok(None) and leaves the entry Pending; and when the worker is scheduled,
\* the handler succeeds and the caller keeps calling, a Pending key of such a
\* glyph is eventually returned as Ok(Some(..)).
C3_BgResolves ==
    /\ []C3_FirstCall
    /\ \A k \in Keys :
          HasOutline(k) => ((glyphs[k].t = "Pending") ~> (resolved[k].t = "OkSome"))

\* A key was sent to the worker and a later call returned it.
C3_Witness ==
    \E k \in Keys : Dispatched(k) /\ HasOutline(k) /\ resolved[k].t = "OkSome"

\* ----------------------------------------------------------------- C4
\* The RenderGlyph jobs for k in the system: commands the worker has not
\* taken (its loop iteration is one step, so none is held in between), and
\* results the caller has not taken.
JobsInFlight(k) ==
    Cardinality({ i \in 1 .. Len(command_q) :
                    /\ command_q[i].cmd = "RenderGlyph"
                    /\ << command_q[i].face_index, command_q[i].glyph_id >> = k })
    + Cardinality({ i \in 1 .. Len(glyph_q) :
                      << glyph_q[i].face, glyph_q[i].glyph >> = k })

\* C4: for every key at most one RenderGlyph job is in the system, and a
\* get_glyph call for a key whose entry is Pending, Present or Null sends no
\* command to the worker.
C4_OneJob ==
    \A k \in Keys :
        /\ JobsInFlight(k) <= 1
        /\ (glyphs[k].t # "Absent" /\ CanCall(k)) =>
               \A r \in CallsOf(k) : r.cmds = << >>

\* A key is Pending with its job in flight, and the caller may ask again.
C4_Witness ==
    \E k \in Keys :
        /\ glyphs[k].t = "Pending" /\ JobsInFlight(k) = 1 /\ CanCall(k)
        /\ render_in_bg

\* ----------------------------------------------------------------- C5
\* The handler calls of a log made for key k that failed.
FailedNews(log, k) == { i \in NewsFor(log, k) : ~log.news[i].ok }
FailedAdds(log, k) == { i \in AddsFor(log, k) : ~log.adds[i].ok }

\* A call in synchronous mode for a key that is not in the cache: when its
\* new_atlas or add_to_atlas fails, it returns that error and leaves Null.
C5_FailingCall(k) ==
    (~render_in_bg /\ glyphs[k].t = "Absent" /\ CanCall(k)) =>
        \A r \in CallsOf(k) :
            /\ FailedNews(r.c.hlog, k) # {} =>
                   r.ret = ErrOf("new_atlas") /\ r.c.glyphs[k] = Null
            /\ FailedAdds(r.c.hlog, k) # {} =>
                   r.ret = ErrOf("add_to_atlas") /\ r.c.glyphs[k] = Null

\* A call for a key whose synchronous resolution failed: Ok(None), and
\* nothing rendered, allocated or uploaded for it.
C5_LaterCall(k) ==
    (~Dispatched(k) /\ FailedNews(hlog, k) \cup FailedAdds(hlog, k) # {} /\ CanCall(k)) =>
        \A r \in CallsOf(k) :
            /\ r.ret = OkNone
            /\ r.c.hlog.renders[k] = hlog.renders[k]
            /\ NewsFor(r.c.hlog, k) = NewsFor(hlog, k)
            /\ AddsFor(r.c.hlog, k) = AddsFor(hlog, k)

\* C5: in synchronous mode a handler failure while resolving a key that is
\* not in the cache is returned as Err and leaves the entry Null; every later
\* call for the key returns Ok(None) and neither rasterizes nor calls
\* new_atlas or add_to_atlas.
C5_SyncFailure == \A k \in Keys : C5_FailingCall(k) /\ C5_LaterCall(k)

\* One key failed in new_atlas, another in add_to_atlas, both synchronously.
C5_Witness ==
    \E k1, k2 \in Keys :
        /\ ~Dispatched(k1) /\ FailedNews(hlog, k1) # {} /\ CanCall(k1)
        /\ ~Dispatched(k2) /\ FailedAdds(hlog, k2) # {} /\ CanCall(k2)

\* ----------------------------------------------------------------- C6
\* C6: when a handler call fails while get_glyph reconciles a background
\* result, the key of the result becomes Null and the call does not return
\* the failure: it returns what the entry of the requested key says (Ok(None)
\* for the failed key itself), and Err only for a handler failure of its own
\* synchronous resolution of the requested key.
C6_Swallowed ==
    \A k \in Keys :
        CanCall(k) =>
            \A r \in CallsOf(k) :
                r.c1.failed # {} =>
                    /\ \A f \in r.c1.failed : r.c.glyphs[f] = Null
                    /\ k \in r.c1.failed => r.ret = OkNone
                    /\ r.c1.glyphs[k].t # "Absent" =>
                           r.ret = ret_of_entry(r.c1.glyphs[k])
                    /\ r.ret.t = "Err" =>
                           /\ glyphs[k].t = "Absent" /\ ~render_in_bg
                           /\ FailedNews(r.c.hlog, k) \cup FailedAdds(r.c.hlog, k) # {}

\* The result of a dispatched key met a handler failure and the key is Null.
C6_Witness ==
    \E k \in Keys :
        /\ Dispatched(k) /\ glyphs[k] = Null
        /\ FailedNews(hlog, k) \cup FailedAdds(hlog, k) # {}

\* ----------------------------------------------------------------- C7
\* new_atlas failed in the call r: while it reconciled the results on the
\* channel, while it resolved the requested key.
DrainNewAtlasFailed(r) ==
    \E i \in (Len(hlog.news) + 1) .. Len(r.c1.hlog.news) : ~r.c.hlog.news[i].ok
SyncNewAtlasFailed(r) ==
    \E i \in (Len(r.c1.hlog.news) + 1) .. Len(r.c.hlog.news) : ~r.c.hlog.news[i].ok

\* The statement as written, read in its narrowest sense (new_atlas fails
\* in the synchronous resolution of the requested key): the call returns the
\* error, the bin list is what it was before the call, and add_to_atlas is
\* not called.
C7_Original ==
    \A k \in Keys :
        (~render_in_bg /\ CanCall(k)) =>
            \A r \in CallsOf(k) :
                SyncNewAtlasFailed(r) =>
                    /\ r.ret = ErrOf("new_atlas")
                    /\ r.c.atlases = atlases
                    /\ Len(r.c.hlog.adds) = Len(hlog.adds)

\* C7 (amended): whenever new_atlas fails while a get_glyph call resolves the
\* requested key synchronously, the call returns that error, the bin list is
\* what the call's reconciliation of background results left (what it was
\* before the call when no result was waiting), and add_to_atlas is not
\* called for the requested key.  A new_atlas failure during the
\* reconciliation itself is not returned.
C7_NewAtlasFails ==
    \A k \in Keys :
        (~render_in_bg /\ CanCall(k)) =>
            \A r \in CallsOf(k) :
                /\ SyncNewAtlasFailed(r) =>
                       /\ r.ret = ErrOf("new_atlas")
                       /\ r.c.atlases = r.c1.atlases
                       /\ glyph_q = << >> => r.c.atlases = atlases
                       /\ Len(r.c.hlog.adds) = Len(r.c1.hlog.adds)
                       /\ AddsFor(r.c.hlog, k) = {}
                /\ (DrainNewAtlasFailed(r) /\ ~SyncNewAtlasFailed(r)) =>
                       r.ret # ErrOf("new_atlas")

\* A synchronous new_atlas failure for a key, in a call whose reconciliation
\* had placed a background result in a bin.
C7_Witness ==
    \E k \in Keys :
        /\ ~render_in_bg /\ CanCall(k)
        /\ \E r \in CallsOf(k) :
              /\ SyncNewAtlasFailed(r)
              /\ r.c1.atlases # atlases

\* ----------------------------------------------------------------- C8
\* The rectangle of the i-th add_to_atlas call
AddRect(i) ==
    [x |-> hlog.adds[i].x, y |-> hlog.adds[i].y,
     w |-> hlog.adds[i].w, h |-> hlog.adds[i].h]

\* C8: any two rectangles passed to add_to_atlas for the same atlas are
\* disjoint and each lies inside the atlas dimensions, also when the
\* add_to_atlas call for one of them failed.
C8_Disjoint ==
    \A i, j \in 1 .. Len(hlog.adds) :
        /\ AddRect(i).x >= 0 /\ AddRect(i).y >= 0
        /\ AddRect(i).w > 0 /\ AddRect(i).h > 0
        /\ AddRect(i).x + AddRect(i).w <= get_atlas_size.w
        /\ AddRect(i).y + AddRect(i).h <= get_atlas_size.h
        /\ (i # j /\ hlog.adds[i].atlas = hlog.adds[j].atlas) =>
               ~Overlap(AddRect(i), AddRect(j))

\* Two uploads to one atlas, the first of a background result and failed,
\* the second of a synchronous resolution.
C8_Witness ==
    \E i, j \in 1 .. Len(hlog.adds) :
        /\ i < j /\ hlog.adds[i].atlas = hlog.adds[j].atlas
        /\ ~hlog.adds[i].ok
        /\ Dispatched(hlog.adds[i].key) /\ ~Dispatched(hlog.adds[j].key)

\* ----------------------------------------------------------------- C9
\* The indices of the bins whose packer accepts the raster of key k
Accepting(k) ==
    { i \in 1 .. Len(atlases) :
        attempt_fit(atlases[i],
                    render_glyph(faces[k[1] + 1], k[2], get_atlas_size.w,
                                 get_atlas_size.h).w,
                    render_glyph(faces[k[1] + 1], k[2], get_atlas_size.w,
                                 get_atlas_size.h).h).fit }

\* The add_to_atlas call the call r made for key k
AddOf(r, k) == r.c.hlog.adds[CHOOSE i \in AddsFor(r.c.hlog, k) : TRUE]

\* No existing bin accepts the raster of k: the call asks for a new atlas
\* and, when it gets one, places the glyph there.
C9_NewBin(k, r) ==
    Accepting(k) = {} =>
        /\ Len(r.c.hlog.news) = Len(hlog.news) + 1
        /\ r.c.hlog.news[Len(r.c.hlog.news)].ok =>
               /\ Len(r.c.atlases) = Len(atlases) + 1
               /\ Cardinality(AddsFor(r.c.hlog, k)) = 1
               /\ AddOf(r, k).atlas = r.c.atlases[Len(r.c.atlases)].handle
               /\ AddOf(r, k).atlas \notin { atlases[i].handle : i \in 1 .. Len(atlases) }
               /\ r.ret.t = "OkSome" => r.ret.atlas = AddOf(r, k).atlas

\* Some existing bin accepts: the glyph is placed in the first of them,
\* whether or not that bin refused a rectangle before, and no atlas is made.
C9_FirstAccepting(k, r) ==
    Accepting(k) # {} =>
        /\ r.c.hlog.news = hlog.news
        /\ Len(r.c.atlases) = Len(atlases)
        /\ Cardinality(AddsFor(r.c.hlog, k)) = 1
        /\ AddOf(r, k).atlas = atlases[first_of(Accepting(k))].handle

\* The calls the two halves speak of: a synchronous resolution of a glyph
\* with an outline.
C9_Case(k) ==
    ~render_in_bg /\ glyphs[k].t = "Absent" /\ CanCall(k) /\ HasOutline(k)

\* The statement as written: a rectangle that fits no bin goes to a new bin,
\* and no glyph is ever placed in a bin that refused a rectangle before.
C9_Original ==
    /\ \A k \in Keys : C9_Case(k) => \A r \in CallsOf(k) : C9_NewBin(k, r)
    /\ \A i \in 1 .. Len(hlog.adds) : ~hlog.adds[i].stale

\* C9 (amended): when a requested rectangle fits no existing bin, new_atlas
\* is called and, when it succeeds, the glyph is placed in the new bin; a bin
\* that refused a rectangle stays in the scan, and a later glyph is placed in
\* the lowest-index bin that accepts it, which may be one that refused before.
C9_Placement ==
    \A k \in Keys :
        C9_Case(k) =>
            \A r \in CallsOf(k) : C9_NewBin(k, r) /\ C9_FirstAccepting(k, r)

\* A glyph went to a second bin because the first refused it, and a later
\* glyph was placed in the first bin.
C9_Witness ==
    \E i, j \in 1 .. Len(hlog.adds) :
        /\ i < j
        /\ hlog.adds[i].fresh /\ Len(atlases) >= 2
        /\ hlog.adds[i].atlas = atlases[2].handle
        /\ hlog.adds[j].stale /\ hlog.adds[j].atlas = atlases[1].handle

\* ---------------------------------------------------------------- C10
\* C10: for a glyph without outline every get_glyph call returns Ok(None),
\* in either mode; the glyph is submitted to rasterization at most once, and
\* neither new_atlas nor add_to_atlas is called for it.
C10_NoOutline ==
    \A k \in Keys :
        ~HasOutline(k) =>
            /\ hlog.renders[k] <= 1
            /\ NewsFor(hlog, k) = {} /\ AddsFor(hlog, k) = {}
            /\ CanCall(k) =>
                   \A r \in CallsOf(k) :
                       /\ r.ret = OkNone
                       /\ r.c.hlog.renders[k] <= 1
                       /\ NewsFor(r.c.hlog, k) = {} /\ AddsFor(r.c.hlog, k) = {}

\* The worker was given a glyph without outline and has rendered it; the
\* caller can ask again.
C10_Witness ==
    \E k \in Keys :
        /\ ~HasOutline(k) /\ Dispatched(k) /\ hlog.renders[k] = 1
        /\ JobsInFlight(k) = 0 /\ CanCall(k)

\* A glyph without outline was requested in synchronous mode; the caller can
\* ask again.
C10_WitnessSync ==
    \E k \in Keys :
        /\ ~HasOutline(k) /\ ~Dispatched(k) /\ hlog.renders[k] = 1 /\ CanCall(k)

\* ---------------------------------------------------------------- C11
\* The result channel holds a result for k.
ResultWaiting(k) ==
    \E i \in 1 .. Len(glyph_q) : << glyph_q[i].face, glyph_q[i].glyph >> = k

\* A step that changes the toggle changes nothing else.
C11_Frame ==
    render_in_bg' # render_in_bg =>
        UNCHANGED << faces, adding, atlases, glyphs, command_q, glyph_q, wfaces, wstate,
                     caller, hlog, resolved >>

\* With background rendering off, a call for a Pending key renders nothing
\* and sends nothing; it returns Ok(None) and leaves Pending while no result
\* for the key waits, and reconciles and returns the result when one does.
C11_PendingKey ==
    \A k \in Keys :
        (~render_in_bg /\ glyphs[k].t = "Pending" /\ CanCall(k)) =>
            \A r \in CallsOf(k) :
                /\ r.c.hlog.renders[k] = hlog.renders[k]
                /\ r.cmds = << >>
                /\ ~ResultWaiting(k) => r.ret = OkNone /\ r.c.glyphs[k] = Pending
                /\ ResultWaiting(k) =>
                       /\ r.c.glyphs[k].t \in {"Present", "Null"}
                       /\ r.ret = ret_of_entry(r.c.glyphs[k])
                       /\ FailedNews(r.c.hlog, k) \cup FailedAdds(r.c.hlog, k) = {} =>
                              r.ret.t = "OkSome"

\* C11: set_render_in_background leaves every cache entry, queued job and
\* queued result unchanged, and a key that is Pending when background
\* rendering is switched off is not rendered synchronously: get_glyph for it
\* returns Ok(None) until its background result is reconciled, and then
\* returns that result.
C11_ToggleFrame == [][C11_Frame]_vars /\ []C11_PendingKey

\* Background rendering is off, a key is Pending and its result waits.
C11_Witness ==
    \E k \in Keys :
        /\ ~render_in_bg /\ glyphs[k].t = "Pending" /\ CanCall(k)
        /\ ResultWaiting(k)

\* ---------------------------------------------------------------- C12
\* A failed add_face on the face list of this state, in either build
C12_FailedCall ==
    \A fs \in FaceParams, bg_feature \in BOOLEAN :
        add_face(faces, FALSE, fs, bg_feature, wstate = "running")
            = [faces |-> faces, cmds |-> << >>, ret |-> -1, panic |-> FALSE]

\* C12: the k-th successful add_face returned handle k-1; a failed add_face
\* returns None, leaves the face list unchanged and sends nothing to the
\* worker; get_face(h) is present exactly when h is below the number of
\* successful add_face calls, and is the face registered under h.
C12_Registry ==
    /\ \A i \in 1 .. Len(hlog.added) :
          /\ hlog.added[i].handle = i - 1
          /\ get_face(faces, hlog.added[i].handle)
                 = [some |-> TRUE, face |-> hlog.added[i].fs]
    /\ \A h \in 0 .. (Len(hlog.added) + 1) :
          get_face(faces, h).some <=> h < Len(hlog.added)
    /\ C12_FailedCall

\* Two faces with different parameters are registered.
C12_Witness ==
    /\ Len(hlog.added) = 2
    /\ hlog.added[1].fs # hlog.added[2].fs

\* ---------------------------------------------------------------- C13
\* C13: a get_glyph call for a key that is not in the cache and whose face
\* index is not a handle add_face returned does not return Ok or Err to the
\* caller, in synchronous and in background mode.
C13_Fatal ==
    \A k \in Keys :
        (caller = "alive" /\ ~ValidKey(k) /\ glyphs[k].t = "Absent") =>
            \A r \in CallsOf(k) : r.ret = Panicked

\* The synchronous half of it.
C13_FatalSync ==
    \A k \in Keys :
        (caller = "alive" /\ ~ValidKey(k) /\ glyphs[k].t = "Absent" /\ ~render_in_bg) =>
            \A r \in CallsOf(k) : r.ret = Panicked /\ r.c.panic

\* ---------------------------------------------------------------- C14
\* The raster sizes render_glyph produces for the faces and glyphs of the model
RasterSizes ==
    { [w |-> render_glyph(fs, g, get_atlas_size.w, get_atlas_size.h).w,
       h |-> render_glyph(fs, g, get_atlas_size.w, get_atlas_size.h).h] :
      fs \in FaceParams, g \in { g \in GlyphIds : glyph_bounding_box(g).some } }

\* The indices of the bins whose packer accepts a w x h rectangle
AcceptingBins(w, h) == { i \in 1 .. Len(atlases) : attempt_fit(atlases[i], w, h).fit }

\* What put_into_atlas did, res, given that the bin at index i was to take
\* the rectangle s: only that bin changed, it holds s, and s was uploaded to
\* its atlas.
C14_PlacedIn(res, i, s) ==
    /\ Len(res.atlases) = Len(atlases)
    /\ \A j \in 1 .. Len(atlases) : j # i => res.atlases[j] = atlases[j]
    /\ \E u \in res.atlases[i].used \ atlases[i].used : u.w = s.w /\ u.h = s.h
    /\ Len(res.hlog.adds) = Len(hlog.adds) + 1
    /\ res.hlog.adds[Len(res.hlog.adds)].atlas = atlases[i].handle

\* C14: put_into_atlas places a rectangle in the lowest-index existing bin
\* whose packer accepts it, and calls new_atlas if and only if no existing
\* bin accepts it.
C14_FirstFit ==
    \A s \in RasterSizes :
        \A acc \in { AcceptingBins(s.w, s.h) } :
            \A o \in Outcomes :
                \A res \in { put_into_atlas(atlases, hlog, << 0, 1 >>, get_atlas_size.w,
                                            get_atlas_size.h, s.w, s.h, o) } :
                    /\ (Len(res.hlog.news) = Len(hlog.news) + 1) <=> (acc = {})
                    /\ (Len(res.hlog.news) = Len(hlog.news)) <=> (acc # {})
                    /\ \A i \in acc :
                           (\A j \in acc : i <= j) => C14_PlacedIn(res, i, s)

\* Two bins accept one of the rasters, and no bin accepts another.
C14_Witness ==
    \E s1, s2 \in RasterSizes :
        /\ Cardinality(AcceptingBins(s1.w, s1.h)) >= 2
        /\ Len(atlases) >= 2 /\ AcceptingBins(s2.w, s2.h) = {}

\* ---------------------------------------------------------------- C15
\* s is a subsequence of t: t with some elements left out.
RECURSIVE IsSubseq(_, _)
IsSubseq(s, t) ==
    IF s = << >> THEN TRUE
    ELSE IF t = << >> THEN FALSE
    ELSE IF Head(s) = Head(t) THEN IsSubseq(Tail(s), Tail(t))
    ELSE IsSubseq(s, Tail(t))

\* The keys of the results on the result channel, oldest first
WaitingKeys == [ i \in 1 .. Len(glyph_q) |-> << glyph_q[i].face, glyph_q[i].glyph >> ]

\* C15: the keys of the results the caller has reconciled, in the order it
\* took them (and followed by those still on the result channel), are a
\* subsequence of the keys of the RenderGlyph jobs in the order the caller
\* dispatched them: no reordering, no result without a job, at most one
\* result per job.
C15_ResultOrder == IsSubseq(hlog.taken \o WaitingKeys, hlog.jobs)

\* Two jobs were dispatched and the results of both were reconciled.
C15_Witness == Len(hlog.jobs) = 2 /\ Len(hlog.taken) = 2

\* ---------------------------------------------------------------- C16
\* s is a prefix of t, element by element.
IsPrefix(s, t) ==
    /\ Len(s) <= Len(t)
    /\ \A i \in 1 .. Len(s) : s[i] = t[i]

\* The handles add_face has returned.
Handles == { hlog.added[i].handle : i \in 1 .. Len(hlog.added) }

\* The number of AddFace commands among the first n commands on the channel.
AddFacesBefore(n) == Cardinality({ i \in 1 .. n : command_q[i].cmd = "AddFace" })

\* Every RenderGlyph command on the command channel whose face_index is a
\* handle add_face returned finds its face in the worker's list when the
\* worker comes to it, and no lookup of the worker has failed.
C16_LookupSucceeds ==
    /\ wstate # "panicked"
    /\ \A p \in 1 .. Len(command_q) :
          (command_q[p].cmd = "RenderGlyph" /\ command_q[p].face_index \in Handles) =>
              command_q[p].face_index < Len(wfaces) + AddFacesBefore(p - 1)

\* The statement as the claim has it: in every state the worker's list is a
\* prefix of the TextHandler's.
C16_Original == IsPrefix(wfaces, faces) /\ C16_LookupSucceeds

\* C16: under every interleaving of caller and worker, the worker's face
\* list is a prefix of the TextHandler's face list followed by the face of
\* an add_face call that has sent its command and not yet pushed (a prefix
\* of the TextHandler's list itself whenever no add_face call is under
\* way), with the same rendering parameters at each index; and whenever the
\* worker processes a RenderGlyph job whose face_index is a handle add_face
\* returned, it already holds a face at that index.
C16_WorkerFaces ==
    /\ IsPrefix(wfaces, faces \o adding)
    /\ (adding = << >> => IsPrefix(wfaces, faces))
    /\ C16_LookupSucceeds

\* The worker has rendered a glyph of a face add_face returned the handle
\* of, from a face list equal to the TextHandler's.
C16_Witness ==
    /\ faces # << >>
    /\ wfaces = faces
    /\ \E k \in Keys : k[1] \in Handles /\ hlog.renders[k] > 0

\* ---------------------------------------------------------------- C17
\* C17: in background mode, for a RenderGlyph job of a glyph without
\* outline the worker puts nothing on the result channel (no result for the
\* key is ever waiting or taken), and the cache entry of the key is Pending
\* in every state after the dispatch, whatever calls follow.
C17_StaysPending ==
    \A k \in Keys :
        (Dispatched(k) /\ ~HasOutline(k)) =>
            /\ glyphs[k].t = "Pending"
            /\ ~ResultWaiting(k)
            /\ k \notin Range(hlog.taken)

\* The worker has processed the job of a glyph without outline, and the
\* caller has since resolved another key and switched the mode.
C17_Witness ==
    \E k \in Keys :
        /\ Dispatched(k) /\ ~HasOutline(k) /\ hlog.renders[k] = 1
        /\ ~render_in_bg
        /\ \E k2 \in Keys : glyphs[k2].t = "Present"

\* ---------------------------------------------------------------- C18
\* The keys of the results waiting on the result channel.
WaitingKeySet == { k \in Keys : ResultWaiting(k) }

\* C18: every get_glyph call, for whatever key, takes every result that is
\* on the result channel off it and reconciles it (the entry of its key is
\* Present, or Failed when the handler refused it) before it looks up its
\* own key: a call for a key whose result is waiting returns Ok(Some(..))
\* when the handler calls for that key succeed.
C18_DrainsAll ==
    \A k \in Keys :
        CanCall(k) =>
            \A r \in CallsOf(k) :
                /\ r.c1.taken = Len(glyph_q)
                /\ \A k2 \in WaitingKeySet :
                       glyphs[k2].t = "Pending" => r.c.glyphs[k2].t \in {"Present", "Null"}
                /\ (k \in WaitingKeySet /\ glyphs[k].t = "Pending"
                    /\ FailedNews(r.c.hlog, k) = {} /\ FailedAdds(r.c.hlog, k) = {}) =>
                       r.ret.t = "OkSome"

\* The results of two keys are waiting, both keys are Pending, and the
\* caller can ask for either.
C18_Witness ==
    /\ Len(glyph_q) = 2
    /\ Cardinality(WaitingKeySet) = 2
    /\ \A k \in WaitingKeySet : glyphs[k].t = "Pending" /\ CanCall(k)

\* ---------------------------------------------------------------- C19
\* C19: with background rendering switched off, a get_glyph call for a key
\* that is not in the cache sends no command to the worker and leaves the
\* key Present or Failed, never Pending; for a glyph with an outline and a
\* handler whose calls succeed the call returns Ok(Some(..)).  Over the run
\* only keys sent to the worker are ever Pending.
C19_Synchronous ==
    \A k \in Keys :
        /\ glyphs[k].t = "Pending" => Dispatched(k)
        /\ (~render_in_bg /\ glyphs[k].t = "Absent" /\ CanCall(k)) =>
               \A r \in CallsOf(k) :
                   /\ r.cmds = << >>
                   /\ r.c.hlog.jobs = hlog.jobs
                   /\ r.c.glyphs[k].t \in {"Present", "Null"}
                   /\ (HasOutline(k) /\ FailedNews(r.c.hlog, k) = {}
                       /\ FailedAdds(r.c.hlog, k) = {}) => r.ret.t = "OkSome"

\* A key was resolved by the call that first asked for it, with the worker
\* running and never given the key.
C19_Witness ==
    \E k \in Keys :
        /\ wstate = "running" /\ ~render_in_bg
        /\ ~Dispatched(k) /\ glyphs[k].t = "Present" /\ resolved[k].t = "OkSome"

\* ---------------------------------------------------------------- C20
\* C20: the worker thread is in its loop as long as the TextHandler is
\* alive, and once the TextHandler is gone (dropped, or unwound by a panic)
\* the scheduled worker eventually leaves its loop and terminates.
C20_WorkerTerminates ==
    /\ [](caller = "alive" => wstate = "running")
    /\ (caller # "alive") ~> (wstate = "exited")

\* The TextHandler was dropped after it had sent jobs, and the worker has
\* terminated.
C20_Witness == caller = "dropped" /\ wstate = "exited" /\ hlog.jobs # << >>

\* ---------------------------------------------------------------- C21
\* render_glyph on every face and outlined glyph of the model: the raster is
\* no larger than the atlas, and an empty bin of the atlas size accepts it.
C21_Capped ==
    \A fs \in FaceParams, g \in { g \in GlyphIds : glyph_bounding_box(g).some } :
        \A r \in { render_glyph(fs, g, get_atlas_size.w, get_atlas_size.h) } :
            /\ r.w <= get_atlas_size.w /\ r.h <= get_atlas_size.h
            /\ attempt_fit(AtlasState_new(0, get_atlas_size.w, get_atlas_size.h),
                           r.w, r.h).fit

C22_OnlyPending ==
    /\ hlog.unasked = {}
    /\ hlog.twice = {}
    /\ \A i \in 1 .. Len(glyph_q) :
          /\ glyphs[WaitingKeys[i]].t = "Pending"
          /\ \A j \in 1 .. Len(glyph_q) : WaitingKeys[j] = WaitingKeys[i] => j = i

\* The results of two keys were reconciled, each into a Pending entry, in a
\* run in which the toggle was switched off.
C22_Witness ==
    /\ Len(hlog.taken) = 2
    /\ ~render_in_bg
    /\ \A i \in 1 .. 2 : glyphs[hlog.taken[i]].t \in {"Present", "Null"}

\* ---------------------------------------------------------------- C23
\* There is one bin per successful new_atlas call, each of the atlas size
\* and with the handle of its call, and the rectangle of every add_to_atlas
\* call, failed or not, is reserved in the bin of its atlas.
C23_Bins ==
    /\ Len(atlases) = NextHandle(hlog)
    /\ \A b \in 1 .. Len(atlases) :
          /\ atlases[b].handle = b - 1
          /\ atlases[b].w = get_atlas_size.w /\ atlases[b].h = get_atlas_size.h
    /\ \A i \in 1 .. Len(hlog.adds) :
          \E b \in 1 .. Len(atlases) :
              atlases[b].handle = hlog.adds[i].atlas /\ AddRect(i) \in atlases[b].used

\* A step keeps every bin at its index, with its handle and dimensions, and
\* with every rectangle its packer has reserved.
C23_Step ==
    /\ Len(atlases') >= Len(atlases)
    /\ \A b \in 1 .. Len(atlases) :
          /\ atlases'[b].handle = atlases[b].handle
          /\ atlases'[b].w = atlases[b].w /\ atlases'[b].h = atlases[b].h
          /\ atlases[b].used \subseteq atlases'[b].used

\* C23: the bin list only grows by appending: the number of bins is the
\* number of new_atlas calls that succeeded, no bin is removed, reordered or
\* made anew with other dimensions, and a rectangle reserved in a bin's
\* packer is never released, not even when its add_to_atlas call fails.
C23_AppendOnly == []C23_Bins /\ [][C23_Step]_vars

\* An add_to_atlas call failed, and a later glyph was placed in the same bin
\* beside the rectangle of the failed call.
C23_Witness ==
    \E i, j \in 1 .. Len(hlog.adds) :
        /\ i < j
        /\ ~hlog.adds[i].ok /\ hlog.adds[j].ok
        /\ hlog.adds[i].atlas = hlog.adds[j].atlas

====
